---- MODULE Spec2Model ----
(***************************************************************************)
(* tiny-rust-server: the request dispatcher of src/server.rs.               *)
(*                                                                         *)
(* A path is a sequence of segments and a segment is the sequence of its   *)
(* dot-separated pieces: "/static/images/logo.png" is                      *)
(* << <<"static">>, <<"images">>, <<"logo","png">> >> and "/" is << >>.    *)
(* Option values are records: None, Some(v).                               *)
(***************************************************************************)
EXTENDS Integers, Sequences, FiniteSets, TLC

VARIABLES
  phase,      \* "setup" (routes being registered), "running" (inside run()), "stopped" (run() returned Err)
  routers,    \* Server.routers: the Trie<Router>, node path -> Option<Router>
  statics,    \* the directories serve_static has been called with
  regs,       \* number of registration calls made so far
  fs,         \* the file system: directory -> set of files that exist in it
  queue,      \* the thread pool's job queue: connections accepted, not yet taken
  conns,      \* per connection: the job's position and the worker's locals
  lock        \* the connection whose worker holds the routers mutex, 0 when free

vars == <<phase, routers, statics, regs, fs, queue, conns, lock>>

\* ------------------------------------------------------------------ bounds
MaxConns == 1
MaxRegs == 2

\* ThreadPool::new(5)
PoolSize == 5

\* ------------------------------------------------------------------ values
None == [some |-> FALSE]
Some(v) == [some |-> TRUE, val |-> v]

RootPath == << >>
StaticPath == << <<"static">> >>
TestPath == << <<"test">> >>
DeepPath == << <<"test">>, <<"deep">> >>
UnregisteredPath == << <<"unregistered">> >>
AppJsPath == << <<"app", "js">> >>
IndexHtmlPath == << <<"index", "html">> >>
LogoPath == << <<"static">>, <<"images">>, <<"logo", "png">> >>
HiddenCssPath == << <<"", "css">> >>
NotesTxtPath == << <<"test">>, <<"notes", "txt">> >>
LegacyPath == << <<"legacy">> >>

\* The request paths clients send.
Paths ==
  { RootPath, StaticPath, TestPath, DeepPath, UnregisteredPath, AppJsPath,
    LogoPath, HiddenCssPath, NotesTxtPath }

Methods == {"GET", "POST"}

\* Request as Request::build_request returns it: no static marker yet.
NewRequest(method, path) ==
  [ method |-> method,
    path |-> path,
    headers |-> << <<"Host", "localhost">> >>,
    body |-> IF method = "POST" THEN "payload" ELSE "",
    static_request_data |-> None ]

Requests == { NewRequest(m, p) : m \in Methods, p \in Paths }

\* Response::new(): status unset, everything else empty.
ResponseNew ==
  [ status_code |-> 0, status_message |-> "", headers |-> << >>, body |-> "" ]

set_status(response, code, message) ==
  [response EXCEPT !.status_code = code, !.status_message = message]

set_contents(response, mime, content) ==
  [response EXCEPT !.headers = << <<"Content-Type", mime>> >>, !.body = content]

\* Response::send: what reaches the connection. A Response no handler touched
\* puts nothing on the wire.
send(response) ==
  IF response = ResponseNew THEN None ELSE Some(response)

\* ------------------------------------------------------------------ utils
StaticExtensions == {"html", "css", "js", "png"}

is_static_file(ext) == ext \in StaticExtensions

guess_mime_type(ext) ==
  CASE ext = "html" -> "text/html"
    [] ext = "css" -> "text/css"
    [] ext = "js" -> "text/javascript"
    [] ext = "png" -> "image/png"
    [] OTHER -> "text/plain"

\* std::path::Path::extension: the piece after the last dot of the last
\* segment; none without a dot, and none for a name that only starts with one.
extension(path) ==
  IF path = << >> THEN None
  ELSE LET name == path[Len(path)] IN
       IF Len(name) < 2 THEN None
       ELSE IF Len(name) = 2 /\ name[1] = "" THEN None
       ELSE Some(name[Len(name)])

\* path.split('.').last() on the whole path string: the piece after the last
\* dot anywhere in the path ("?" stands for the leftover of a path whose last
\* segment has no dot: some string that is no file extension).
LastDotPiece(path) ==
  IF path # << >> /\ Len(path[Len(path)]) >= 2
  THEN path[Len(path)][Len(path[Len(path)])]
  ELSE "?"

\* ------------------------------------------------------------------ file system
Dirs == {"public"}

Files == { IndexHtmlPath, AppJsPath }

FileText(file) ==
  IF file = IndexHtmlPath THEN "<h1>index</h1>" ELSE "console.log(1)"

\* utils::file::get_first_html_file_name: the (name, extension) of an HTML file
\* directly under the directory, an error when it holds none.
HtmlFilesIn(entries) ==
  { f \in entries : Len(f) = 1 /\ extension(f) = Some("html") }

get_first_html_file_name(entries) ==
  IF HtmlFilesIn(entries) = {} THEN None
  ELSE LET f == CHOOSE x \in HtmlFilesIn(entries) : TRUE IN Some(<<f, "html">>)

\* std::fs::read_to_string of root\file.
read_to_string(entries, file) ==
  IF file \in entries THEN Some(FileText(file)) ELSE None

\* ------------------------------------------------------------------ handlers
\* A handler is named by a record; root is the directory a static handler
\* captured, "" for the others.
UserHandler(name) == [name |-> name, root |-> ""]
NotFoundHandler == UserHandler("not_found")
HelloHandler == UserHandler("hello")
LogOnlyHandler == UserHandler("log_only")
StaticHandler(root_path) == [name |-> "static", root |-> root_path]

\* main.rs: GET / sets 404 Not Found.
NotFoundBody(response) == set_status(response, 404, "Not Found")

\* main.rs: GET /test sets 200 OK and the content "Hello World!".
HelloBody(response) ==
  [set_status(response, 200, "OK") EXCEPT !.body = "Hello World!"]

\* Variant: the logging handler also answers 200 OK.
LogOnlyBody_sets_ok(response) == set_status(response, 200, "OK")

\* main.rs: POST /test only prints the request.
LogOnlyBody(response) == response

UserHandlerBody(func, response) ==
  CASE func = NotFoundHandler -> NotFoundBody(response)
    [] func = HelloHandler -> HelloBody(response)
    [] OTHER -> LogOnlyBody(response)

\* ------------------------------------------------------------------ middleware
\* A middleware mutates the request in place; "tag" appends a header,
\* "to_test" sends the request on to "/test" and leaves a header of its own.
Mark(mw) == IF mw = "tag" THEN <<"X-Trace", "1">> ELSE <<"X-Rewritten", "1">>

RunMiddleware(mw, request) ==
  CASE mw = "tag" -> [request EXCEPT !.headers = Append(@, Mark(mw))]
    [] mw = "to_test" -> [request EXCEPT !.path = TestPath,
                                           !.headers = Append(@, Mark(mw))]
    [] OTHER -> request

\* ------------------------------------------------------------------ Router
EmptyMap == [x \in {} |-> None]

RouterNew(base_path) ==
  [base_path |-> base_path, middleware |-> << >>, routes |-> EmptyMap]

\* Router::route: the handler of (sub-path, method), keyed by the path a
\* request for it carries; registering the pair again overwrites.
route(r, subpath, method, func) ==
  LET key == r.base_path \o subpath
      old == IF key \in DOMAIN r.routes THEN r.routes[key] ELSE EmptyMap
      new == [m \in DOMAIN old \cup {method} |-> IF m = method THEN func ELSE old[m]]
  IN [r EXCEPT !.routes =
        [k \in DOMAIN r.routes \cup {key} |-> IF k = key THEN new ELSE r.routes[k]]]

middleware(r, mw) == [r EXCEPT !.middleware = Append(@, mw)]

RECURSIVE ApplyMiddleware(_, _, _)
ApplyMiddleware(mws, i, request) ==
  IF i > Len(mws) THEN request
  ELSE ApplyMiddleware(mws, i + 1, RunMiddleware(mws[i], request))

execute_middleware(r, request) == ApplyMiddleware(r.middleware, 1, request)

find_route(r, request) ==
  IF request.path \in DOMAIN r.routes THEN Some(r.routes[request.path]) ELSE None

\* ------------------------------------------------------------------ Trie
\* Trie::new(): the root node, holding no value.
TrieNew == [n \in {RootPath} |-> None]

Prefixes(path) == { SubSeq(path, 1, i) : i \in 0..Len(path) }

IsPrefix(p, path) == Len(p) <= Len(path) /\ SubSeq(path, 1, Len(p)) = p

\* Trie::insert: creates the nodes on the way to the key and stores the value
\* at the key's node, replacing a value already there.
insert(trie, key, value) ==
  [n \in DOMAIN trie \cup Prefixes(key) |->
     IF n = key THEN Some(value)
     ELSE IF n \in DOMAIN trie THEN trie[n] ELSE None]

\* Trie::search: walks the path segment by segment while a child node exists
\* and yields the value of the deepest node on the way that holds one.
RECURSIVE Walk(_, _, _, _)
Walk(trie, path, i, best) ==
  LET here == SubSeq(path, 1, i) IN
  IF i > Len(path) \/ here \notin DOMAIN trie THEN best
  ELSE Walk(trie, path, i + 1, IF trie[here].some THEN trie[here] ELSE best)

search(trie, path) == Walk(trie, path, 0, None)

\* ------------------------------------------------------------------ the routers user code builds
\* main.rs: GET / answers 404; plus a handler on a path with a static extension.
RootRouter ==
  route(route(RouterNew(RootPath), RootPath, "GET", NotFoundHandler),
        AppJsPath, "GET", HelloHandler)

\* main.rs: GET /test answers 200 "Hello World!", POST /test only logs.
TestRouter ==
  route(route(RouterNew(TestPath), << >>, "GET", HelloHandler),
        << >>, "POST", LogOnlyHandler)

DeepRouter ==
  route(middleware(RouterNew(DeepPath), "tag"), << >>, "GET", HelloHandler)

UserStaticRouter ==
  route(RouterNew(StaticPath), << >>, "GET", HelloHandler)

UserRouters == { RootRouter, TestRouter, DeepRouter, UserStaticRouter }

\* A group whose middleware sends every request on to "/test", a path outside
\* the group.
LegacyRouter ==
  route(middleware(middleware(RouterNew(LegacyPath), "tag"), "to_test"),
        << >>, "GET", NotFoundHandler)

\* A group at "/" whose middleware sends every request on to "/test", where the
\* group has a route of its own.
CatchAllRouter ==
  route(middleware(middleware(RouterNew(RootPath), "to_test"), "tag"),
        TestPath, "GET", LogOnlyHandler)

MwRouters == { LegacyRouter, CatchAllRouter, TestRouter }

\* ------------------------------------------------------------------ server.rs
\* Server::router: the group goes into the trie under its own base path.
router(trie, r) == insert(trie, r.base_path, r)

\* Variant: the route is registered under the sub-path "/static", which the
\* group's base path prefixes once more.
serve_static_prefixed(trie, dir) ==
  router(trie, route(RouterNew(StaticPath), StaticPath, "GET", StaticHandler(dir)))

\* Server::serve_static: a "/static" group whose only route is GET on the
\* empty sub-path, handled by the static-file closure over the directory.
serve_static(trie, dir) ==
  router(trie, route(RouterNew(StaticPath), << >>, "GET", StaticHandler(dir)))

\* Variant: only the file name of the path is returned.
is_static_path_file_name(request) ==
  LET ext == extension(request.path) IN
  << ext.some /\ is_static_file(ext.val), << request.path[Len(request.path)] >> >>

\* Server::is_static_path: (has a static extension, the path as a string).
is_static_path(request) ==
  LET ext == extension(request.path) IN
  << ext.some /\ is_static_file(ext.val), request.path >>

\* Variant: "/" is treated like a static file, its path kept as the concrete one.
check_static_request_root_as_file(request) ==
  LET static_info == is_static_path(request) IN
  IF request.path = RootPath \/ static_info[1]
  THEN [request EXCEPT
          !.static_request_data = Some([path |-> Some(static_info[2])]),
          !.path = StaticPath]
  ELSE request

\* Server::check_static_request
check_static_request(request) ==
  IF request.path = RootPath
  THEN [request EXCEPT !.static_request_data = Some([path |-> None]),
                       !.path = StaticPath]
  ELSE LET static_info == is_static_path(request) IN
       IF static_info[1]
       THEN [request EXCEPT
               !.static_request_data = Some([path |-> Some(static_info[2])]),
               !.path = StaticPath]
       ELSE request

\* Variant: only the first segment of the path is looked up.
match_search_first_segment(trie, request) ==
  search(trie, SubSeq(request.path, 1, IF request.path = << >> THEN 0 ELSE 1))

\* Server::match_router, the lookup: the group the trie yields for the path.
match_search(trie, request) == search(trie, request.path)

\* Variant: the route is looked up before the middleware has run.
match_route_lookup_first(r, request) ==
  LET after == execute_middleware(r, request)
      found == find_route(r, request)
  IN << after,
        IF found.some /\ after.method \in DOMAIN found.val
        THEN Some(found.val[after.method]) ELSE None >>

\* Variant: a method without a handler falls back to some handler of the route.
match_route_any_method(r, request) ==
  LET after == execute_middleware(r, request)
      found == find_route(r, after)
  IN << after,
        IF found.some
        THEN IF after.method \in DOMAIN found.val
             THEN Some(found.val[after.method])
             ELSE Some(found.val[CHOOSE m \in DOMAIN found.val : TRUE])
        ELSE None >>

\* Server::match_router, inside the group: the middleware runs, then the route
\* of the exact path and the handler of the method in it are looked up.
\* <<the request after the middleware, Option<handler>>>.
match_route(r, request) ==
  LET after == execute_middleware(r, request)
      found == find_route(r, after)
  IN << after,
        IF found.some /\ after.method \in DOMAIN found.val
        THEN Some(found.val[after.method]) ELSE None >>

\* Server::get_static_file_details over the entries of the handler's root:
\* Option<(file under the root, extension)>.
get_static_file_details(request, entries) ==
  IF request.static_request_data.some
  THEN LET data == request.static_request_data.val IN
       IF data.path.some
       THEN Some(<<data.path.val, LastDotPiece(data.path.val)>>)
       ELSE get_first_html_file_name(entries)
  ELSE None

\* Variant: the two arms of the read are swapped.
static_read_swapped(response, entries, details) ==
  LET content == read_to_string(entries, details[1]) IN
  IF content.some
  THEN set_status(response, 404, "Not Found")
  ELSE set_contents(response, guess_mime_type(details[2]), "")

\* The static-file closure once a file is resolved: its text becomes the
\* content, a failed read becomes 404.
static_read(response, entries, details) ==
  LET content == read_to_string(entries, details[1]) IN
  IF content.some
  THEN set_contents(response, guess_mime_type(details[2]), content.val)
  ELSE set_status(response, 404, "Not Found")

\* ------------------------------------------------------------------ state
Conns == 1..MaxConns

\* A worker is busy with a connection from taking its job to sending.
Handling == {"parsing", "matching", "middleware", "handler", "reading", "sending"}

Busy == Cardinality({ c \in DOMAIN conns : conns[c].pc \in Handling })

NewConn ==
  [ pc |-> "unaccepted",
    stream |-> None,        \* what the client sent: Some(request), None when malformed
    orig |-> None,          \* the request as parsed
    request |-> None,       \* the worker's Request
    response |-> ResponseNew,
    searched |-> None,      \* the path the trie lookup was given
    router |-> None,        \* the group the trie lookup selected
    func |-> None,          \* the handler the method map yielded
    file |-> None,          \* the file the static handler resolved
    read |-> "none",        \* how its read_to_string ended: "ok", "err"
    no_html |-> FALSE,      \* the static handler started on a root without an HTML file
    invoked |-> << >>,      \* handler invocations: the handler and the Response it got
    sent |-> None,          \* what reached the connection
    taken |-> 0,            \* times a worker took the connection's job
    created |-> 0,          \* calls of Response::new for the connection
    sends |-> 0,            \* calls of response.send for the connection
    log |-> << >> ]

Init ==
  /\ phase = "setup"
  /\ routers = TrieNew
  /\ statics = {}
  /\ regs = 0
  /\ fs = [d \in Dirs |-> Files]
  /\ queue = << >>
  /\ conns = [c \in Conns |-> NewConn]
  /\ lock = 0

\* ------------------------------------------------------------------ setup
\* Variant: user code registers groups whenever it likes.
Register_any_phase(r) ==
  /\ regs < MaxRegs
  /\ routers' = router(routers, r)
  /\ regs' = regs + 1
  /\ UNCHANGED <<phase, statics, fs, queue, conns, lock>>

\* server.router(group)
Register(r) ==
  /\ phase = "setup"
  /\ regs < MaxRegs
  /\ routers' = router(routers, r)
  /\ regs' = regs + 1
  /\ UNCHANGED <<phase, statics, fs, queue, conns, lock>>

\* server.serve_static(dir)
ServeStatic(dir) ==
  /\ phase = "setup"
  /\ regs < MaxRegs
  /\ routers' = serve_static(routers, dir)
  /\ statics' = statics \cup {dir}
  /\ regs' = regs + 1
  /\ UNCHANGED <<phase, fs, queue, conns, lock>>

\* server.run() enters its accept loop.
Run ==
  /\ phase = "setup"
  /\ phase' = "running"
  /\ UNCHANGED <<routers, statics, regs, fs, queue, conns, lock>>

\* ------------------------------------------------------------------ run()
\* Variant: the accept loop goes on after the listener has failed.
Accept_any_phase(c, stream) ==
  /\ phase \in {"running", "stopped"}
  /\ conns[c].pc = "unaccepted"
  /\ \A d \in DOMAIN conns : d < c => conns[d].pc # "unaccepted"
  /\ conns' = [conns EXCEPT ![c].pc = "queued", ![c].stream = stream]
  /\ queue' = Append(queue, c)
  /\ UNCHANGED <<phase, routers, statics, regs, fs, lock>>

\* Variant: the connection is accepted but its job never reaches the pool.
Accept_drops_job(c, stream) ==
  /\ phase = "running"
  /\ conns[c].pc = "unaccepted"
  /\ \A d \in DOMAIN conns : d < c => conns[d].pc # "unaccepted"
  /\ conns' = [conns EXCEPT ![c].pc = "queued", ![c].stream = stream]
  /\ UNCHANGED <<phase, routers, statics, regs, fs, queue, lock>>

\* Variant: a connection is accepted only while a worker is idle.
Accept_when_idle(c, stream) ==
  /\ phase = "running"
  /\ Busy < PoolSize
  /\ conns[c].pc = "unaccepted"
  /\ \A d \in DOMAIN conns : d < c => conns[d].pc # "unaccepted"
  /\ conns' = [conns EXCEPT ![c].pc = "queued", ![c].stream = stream]
  /\ queue' = Append(queue, c)
  /\ UNCHANGED <<phase, routers, statics, regs, fs, lock>>

\* listener.incoming() yields a connection: its job is queued.
Accept(c, stream) ==
  /\ phase = "running"
  /\ conns[c].pc = "unaccepted"
  /\ \A d \in DOMAIN conns : d < c => conns[d].pc # "unaccepted"
  /\ conns' = [conns EXCEPT ![c].pc = "queued", ![c].stream = stream]
  /\ queue' = Append(queue, c)
  /\ UNCHANGED <<phase, routers, statics, regs, fs, lock>>

\* listener.incoming() yields an error: run() returns it.
AcceptError ==
  /\ phase = "running"
  /\ phase' = "stopped"
  /\ UNCHANGED <<routers, statics, regs, fs, queue, conns, lock>>

\* Variant: a stream that does not parse is handled as an empty GET /.
StartJob_handles_malformed(cn) ==
  LET parsed == IF cn.stream.some THEN cn.stream.val ELSE NewRequest("GET", RootPath)
  IN [cn EXCEPT !.pc = "matching",
                !.orig = parsed,
                !.request = check_static_request(parsed),
                !.response = ResponseNew,
                !.created = @ + 1]

\* The job closure of run(): Request::build_request, and on Ok the start of
\* handle_loop (check_static_request, Response::new); on Err the error is
\* logged and the job ends.
StartJob(cn) ==
  IF cn.stream.some
  THEN [cn EXCEPT !.pc = "matching",
                  !.orig = cn.stream.val,
                  !.request = check_static_request(cn.stream.val),
                  !.response = ResponseNew,
                  !.created = @ + 1]
  ELSE [cn EXCEPT !.pc = "failed",
                  !.log = Append(@, "Request Error")]

\* An idle worker takes the oldest job and runs it up to the lookup.
Take(c) ==
  /\ queue # << >>
  /\ c = Head(queue)
  /\ Busy < PoolSize
  /\ queue' = Tail(queue)
  /\ conns' = [conns EXCEPT ![c] = StartJob([conns[c] EXCEPT !.taken = @ + 1])]
  /\ UNCHANGED <<phase, routers, statics, regs, fs, lock>>

\* match_router: routers.lock().unwrap().search(&request.path)
Search(c) ==
  /\ conns[c].pc = "matching"
  /\ lock = 0
  /\ LET found == match_search(routers, conns[c].request) IN
       IF found.some
       THEN /\ conns' = [conns EXCEPT ![c].pc = "middleware",
                                      ![c].searched = Some(conns[c].request.path),
                                      ![c].router = found]
            /\ lock' = c
       ELSE /\ conns' = [conns EXCEPT ![c].pc = "sending",
                                      ![c].searched = Some(conns[c].request.path)]
            /\ lock' = 0
  /\ UNCHANGED <<phase, routers, statics, regs, fs, queue>>

\* Variant: after the middleware the trie is searched again with the path the
\* request now carries, and the route is looked up in the group found then.
Dispatch_backtracks(c) ==
  /\ conns[c].pc = "middleware"
  /\ lock = c
  /\ LET after == execute_middleware(conns[c].router.val, conns[c].request)
         again == match_search(routers, after)
         found == IF again.some THEN find_route(again.val, after) ELSE None
         func == IF found.some /\ after.method \in DOMAIN found.val
                 THEN Some(found.val[after.method]) ELSE None
     IN
       IF func.some
       THEN /\ conns' = [conns EXCEPT ![c].pc = "handler",
                                      ![c].request = after,
                                      ![c].func = func]
            /\ lock' = c
       ELSE /\ conns' = [conns EXCEPT ![c].pc = "sending", ![c].request = after]
            /\ lock' = 0
  /\ UNCHANGED <<phase, routers, statics, regs, fs, queue>>

\* match_router: execute_middleware, find_route, method_map.get
Dispatch(c) ==
  /\ conns[c].pc = "middleware"
  /\ lock = c
  /\ LET res == match_route(conns[c].router.val, conns[c].request) IN
       IF res[2].some
       THEN /\ conns' = [conns EXCEPT ![c].pc = "handler",
                                      ![c].request = res[1],
                                      ![c].func = res[2]]
            /\ lock' = c
       ELSE /\ conns' = [conns EXCEPT ![c].pc = "sending", ![c].request = res[1]]
            /\ lock' = 0
  /\ UNCHANGED <<phase, routers, statics, regs, fs, queue>>

\* Variant: the mutex is still held when the handler has returned.
Invoke_keeps_lock(c) ==
  /\ conns[c].pc = "handler"
  /\ lock = c
  /\ LET func == conns[c].func.val
         call == [func |-> func, response |-> conns[c].response]
     IN
       IF func.name = "static"
       THEN LET details == get_static_file_details(conns[c].request, fs[func.root]) IN
            IF details.some
            THEN /\ conns' = [conns EXCEPT ![c].pc = "reading",
                                           ![c].invoked = Append(@, call),
                                           ![c].no_html = HtmlFilesIn(fs[func.root]) = {},
                                           ![c].file = details]
                 /\ lock' = c
            ELSE /\ conns' = [conns EXCEPT ![c].pc = "sending",
                                           ![c].invoked = Append(@, call),
                                           ![c].no_html = HtmlFilesIn(fs[func.root]) = {},
                                           ![c].log = Append(@, "No HTML File Found")]
                 /\ lock' = c
       ELSE /\ conns' = [conns EXCEPT ![c].pc = "sending",
                                      ![c].invoked = Append(@, call),
                                      ![c].response = UserHandlerBody(func, @)]
            /\ lock' = c
  /\ UNCHANGED <<phase, routers, statics, regs, fs, queue>>

\* match_router: (func)(request, response). A user handler runs to its end;
\* the static-file closure runs up to the file it resolved.
Invoke(c) ==
  /\ conns[c].pc = "handler"
  /\ lock = c
  /\ LET func == conns[c].func.val
         call == [func |-> func, response |-> conns[c].response]
     IN
       IF func.name = "static"
       THEN LET details == get_static_file_details(conns[c].request, fs[func.root]) IN
            IF details.some
            THEN /\ conns' = [conns EXCEPT ![c].pc = "reading",
                                           ![c].invoked = Append(@, call),
                                           ![c].no_html = HtmlFilesIn(fs[func.root]) = {},
                                           ![c].file = details]
                 /\ lock' = c
            ELSE /\ conns' = [conns EXCEPT ![c].pc = "sending",
                                           ![c].invoked = Append(@, call),
                                           ![c].no_html = HtmlFilesIn(fs[func.root]) = {},
                                           ![c].log = Append(@, "No HTML File Found")]
                 /\ lock' = 0
       ELSE /\ conns' = [conns EXCEPT ![c].pc = "sending",
                                      ![c].invoked = Append(@, call),
                                      ![c].response = UserHandlerBody(func, @)]
            /\ lock' = 0
  /\ UNCHANGED <<phase, routers, statics, regs, fs, queue>>

\* The static-file closure: read_to_string of the resolved file.
ReadFile(c) ==
  /\ conns[c].pc = "reading"
  /\ lock = c
  /\ LET entries == fs[conns[c].func.val.root]
         details == conns[c].file.val
     IN conns' = [conns EXCEPT
          ![c].pc = "sending",
          ![c].response = static_read(@, entries, details),
          ![c].read = IF read_to_string(entries, details[1]).some THEN "ok" ELSE "err",
          ![c].log = IF read_to_string(entries, details[1]).some
                     THEN @ ELSE Append(@, "File Read Error")]
  /\ lock' = 0
  /\ UNCHANGED <<phase, routers, statics, regs, fs, queue>>

\* Variant: the response is sent only when a handler has run.
Send_if_invoked(c) ==
  /\ conns[c].pc = "sending"
  /\ conns' = [conns EXCEPT ![c].pc = "done",
                            ![c].log = Append(@, "Request"),
                            ![c].sends = IF conns[c].invoked = << >> THEN @ ELSE @ + 1,
                            ![c].sent = send(conns[c].response)]
  /\ UNCHANGED <<phase, routers, statics, regs, fs, queue, lock>>

\* handle_loop: the request is logged and response.send(stream) is called.
Send(c) ==
  /\ conns[c].pc = "sending"
  /\ conns' = [conns EXCEPT ![c].pc = "done",
                            ![c].log = Append(@, "Request"),
                            ![c].sends = @ + 1,
                            ![c].sent = send(conns[c].response)]
  /\ UNCHANGED <<phase, routers, statics, regs, fs, queue, lock>>

\* ------------------------------------------------------------------ environment
\* A file of a served directory is deleted.
DeleteFile(dir, file) ==
  /\ file \in fs[dir]
  /\ fs' = [fs EXCEPT ![dir] = @ \ {file}]
  /\ UNCHANGED <<phase, routers, statics, regs, queue, conns, lock>>

Streams == { Some(r) : r \in Requests } \cup {None}

Next ==
  \/ \E r \in UserRouters : Register(r)
  \/ \E dir \in Dirs : ServeStatic(dir)
  \/ Run
  \/ \E c \in Conns, stream \in Streams : Accept(c, stream)
  \/ AcceptError
  \/ \E c \in Conns : Take(c)
  \/ \E c \in Conns : Search(c)
  \/ \E c \in Conns : Dispatch(c)
  \/ \E c \in Conns : Invoke(c)
  \/ \E c \in Conns : ReadFile(c)
  \/ \E c \in Conns : Send(c)
  \/ \E dir \in Dirs, file \in Files : DeleteFile(dir, file)

Spec == Init /\ [][Next]_vars

\* ------------------------------------------------------------------ the pool under load
\* The same server inside run(), with the routes of main.rs registered, seen at
\* the grain of the thread pool: taking a job and parsing its stream are
\* separate steps, and there are more connections than workers.
MaxPoolConns == 6

PoolConns == 1..MaxPoolConns

MainRouters == router(router(TrieNew, RootRouter), TestRouter)

PoolStreams == { Some(NewRequest("GET", TestPath)), None }

InitPool ==
  /\ phase = "running"
  /\ routers = MainRouters
  /\ statics = {}
  /\ regs = 2
  /\ fs = [d \in Dirs |-> Files]
  /\ queue = << >>
  /\ conns = [c \in PoolConns |-> NewConn]
  /\ lock = 0

\* An idle worker takes the oldest job off the queue and starts reading the
\* stream.
TakeJob(c) ==
  /\ queue # << >>
  /\ c = Head(queue)
  /\ Busy < PoolSize
  /\ queue' = Tail(queue)
  /\ conns' = [conns EXCEPT ![c].pc = "parsing", ![c].taken = @ + 1]
  /\ UNCHANGED <<phase, routers, statics, regs, fs, lock>>

\* Request::build_request returns: the job goes on, or ends on the error.
Parse(c) ==
  /\ conns[c].pc = "parsing"
  /\ conns' = [conns EXCEPT ![c] = StartJob(conns[c])]
  /\ UNCHANGED <<phase, routers, statics, regs, fs, queue, lock>>

NextPool ==
  \/ \E c \in PoolConns, stream \in PoolStreams : Accept(c, stream)
  \/ \E c \in PoolConns : TakeJob(c)
  \/ \E c \in PoolConns : Parse(c)
  \/ \E c \in PoolConns : Search(c)
  \/ \E c \in PoolConns : Dispatch(c)
  \/ \E c \in PoolConns : Invoke(c)
  \/ \E c \in PoolConns : Send(c)

SpecPool == InitPool /\ [][NextPool]_vars

\* The pool with workers that are scheduled fairly and jobs that terminate: a
\* worker that can take a job or go on with the one it has does so in the end.
\* A job is taken and parsed in one step, as in Spec.
NextJobs ==
  \/ \E c \in PoolConns, stream \in PoolStreams : Accept(c, stream)
  \/ \E c \in PoolConns : Take(c)
  \/ \E c \in PoolConns : Search(c)
  \/ \E c \in PoolConns : Dispatch(c)
  \/ \E c \in PoolConns : Invoke(c)
  \/ \E c \in PoolConns : Send(c)

JobStep(c) == Take(c) \/ Search(c) \/ Dispatch(c) \/ Invoke(c) \/ Send(c)

SpecPoolFair ==
  InitPool /\ [][NextJobs]_vars /\ \A c \in PoolConns : WF_vars(JobStep(c))

\* ------------------------------------------------------------------ groups with middleware
\* The server set up with groups whose middleware rewrites the path, and
\* clients that ask for the paths those groups and their neighbours own.
MwPaths == { LegacyPath, TestPath, UnregisteredPath, RootPath }

MwStreams == { Some(NewRequest(m, p)) : m \in Methods, p \in MwPaths }

NextMw ==
  \/ \E r \in MwRouters : Register(r)
  \/ Run
  \/ \E c \in Conns, stream \in MwStreams : Accept(c, stream)
  \/ \E c \in Conns : Take(c)
  \/ \E c \in Conns : Search(c)
  \/ \E c \in Conns : Dispatch(c)
  \/ \E c \in Conns : Invoke(c)
  \/ \E c \in Conns : Send(c)

SpecMw == Init /\ [][NextMw]_vars

\* ================================================================== claims
Searched(c) == conns[c].searched.some

\* The worker is past the lookups of match_router.
Routed(c) == conns[c].pc \in {"handler", "reading", "sending", "done"}

\* The route groups the trie holds.
Groups == { routers[n].val : n \in { m \in DOMAIN routers : routers[m].some } }

StrictPrefix(p, q) == IsPrefix(p, q) /\ p # q

HasStaticExtension(path) ==
  /\ path # << >>
  /\ Len(path[Len(path)]) >= 2
  /\ ~(Len(path[Len(path)]) = 2 /\ path[Len(path)][1] = "")
  /\ path[Len(path)][Len(path[Len(path)])] \in StaticExtensions

\* The group that owns a path: none registered under the path lies deeper.
Owns(g, path) ==
  /\ g \in Groups
  /\ IsPrefix(g.base_path, path)
  /\ \A h \in Groups : IsPrefix(h.base_path, path) => Len(h.base_path) <= Len(g.base_path)

\* C1: with groups registered at P1 and P2, P1 a strict segment-prefix of P2,
\* the lookup of a path under P2 never selects the group at P1: it selects the
\* group registered at the deepest base path that prefixes the path.
C1_DeepestPrefixSelected ==
  \A c \in Conns : Searched(c) =>
    \A g1, g2 \in Groups :
      (StrictPrefix(g1.base_path, g2.base_path)
         /\ IsPrefix(g2.base_path, conns[c].searched.val))
      => /\ conns[c].router.some
         /\ conns[c].router.val.base_path # g1.base_path
         /\ Owns(conns[c].router.val, conns[c].searched.val)

C1_Witness ==
  \E c \in Conns : \E g1, g2 \in Groups :
    /\ Searched(c)
    /\ g1.base_path # RootPath
    /\ StrictPrefix(g1.base_path, g2.base_path)
    /\ IsPrefix(g2.base_path, conns[c].searched.val)
    /\ conns[c].router = Some(g2)

\* C2: a request for exactly the path and method a handler is registered
\* under invokes that handler once, with a Response at its defaults, for every
\* registered path, "/" and paths with a static extension included.
C2_RegisteredHandlerInvokedOnce ==
  \A c \in Conns : conns[c].pc = "done" =>
    \A g \in Groups :
      ( /\ Owns(g, conns[c].orig.path)
        /\ conns[c].orig.path \in DOMAIN g.routes
        /\ conns[c].orig.method \in DOMAIN g.routes[conns[c].orig.path] )
      => conns[c].invoked =
           << [ func |-> g.routes[conns[c].orig.path][conns[c].orig.method],
                response |-> ResponseNew ] >>

\* The three lookups of match_router, as the worker's locals show them.
NoGroup(c) == ~conns[c].router.some

NoRoute(c) ==
  /\ conns[c].router.some
  /\ conns[c].request.path \notin DOMAIN conns[c].router.val.routes

NoMethod(c) ==
  /\ conns[c].router.some
  /\ conns[c].request.path \in DOMAIN conns[c].router.val.routes
  /\ conns[c].request.method
       \notin DOMAIN conns[c].router.val.routes[conns[c].request.path]

C4_GetRootAnswers404 ==
  \A c \in Conns :
    ( /\ conns[c].pc = "done"
      /\ conns[c].orig = NewRequest("GET", RootPath)
      /\ routers[RootPath] = Some(RootRouter)
      /\ statics = {} )
    => /\ conns[c].invoked = << [func |-> NotFoundHandler, response |-> ResponseNew] >>
       /\ conns[c].sent = Some(set_status(ResponseNew, 404, "Not Found"))

\* C5 as stated: a request for "/" always resolves to the "/static" group,
\* with a marker without a concrete path, whether or not a "/static" group
\* was registered.
C5_RootResolvesToStaticGroup ==
  \A c \in Conns :
    (Searched(c) /\ conns[c].orig.path = RootPath)
    => /\ conns[c].request.static_request_data = Some([path |-> None])
       /\ conns[c].router.some
       /\ conns[c].router.val.base_path = StaticPath

\* C5 amended: a request for "/" is always rewritten to the path "/static"
\* with a marker without a concrete path; the lookup selects the group at
\* "/static" when one is registered, and otherwise what the trie holds at "/".
C5_RootRewrittenToStatic ==
  \A c \in Conns :
    (conns[c].orig # None /\ conns[c].orig.path = RootPath)
    => /\ conns[c].pc \in {"matching", "middleware"}
          => /\ conns[c].request.path = StaticPath
             /\ conns[c].request.static_request_data = Some([path |-> None])
       /\ Searched(c)
          => /\ conns[c].searched = Some(StaticPath)
             /\ conns[c].router =
                  IF StaticPath \in DOMAIN routers /\ routers[StaticPath].some
                  THEN routers[StaticPath] ELSE routers[RootPath]

C5_Witness ==
  \E c \in Conns :
    /\ Searched(c)
    /\ conns[c].orig.path = RootPath
    /\ StaticPath \notin DOMAIN routers
    /\ conns[c].router.some
    /\ conns[c].router.val.base_path = RootPath

\* C6: for a path other than "/", check_static_request rewrites a path with a
\* recognized static extension to "/static", the marker carrying the original
\* path, and leaves any other request as it was, without a marker; method,
\* headers and body stay as they were in both cases.
C6_StaticRewriteFrame ==
  \A c \in Conns :
    (conns[c].pc = "matching" /\ conns[c].orig.path # RootPath)
    => LET o == conns[c].orig
           r == conns[c].request
       IN /\ HasStaticExtension(o.path)
             => /\ r.path = StaticPath
                /\ r.static_request_data = Some([path |-> Some(o.path)])
          /\ ~HasStaticExtension(o.path)
             => /\ r.path = o.path
                /\ r.static_request_data = None
          /\ r.method = o.method
          /\ r.headers = o.headers
          /\ r.body = o.body

C6_Witness ==
  \E c \in Conns :
    /\ conns[c].pc = "matching"
    /\ conns[c].orig.path = LogoPath
    /\ conns[c].request.path = StaticPath
    /\ conns[c].request.static_request_data = Some([path |-> Some(LogoPath)])

C8_DeletedIndexAnswers404 ==
  \A c \in Conns :
    ( /\ conns[c].pc = "done"
      /\ conns[c].orig = NewRequest("GET", RootPath)
      /\ Len(conns[c].invoked) = 1
      /\ conns[c].invoked[1].func.name = "static"
      /\ conns[c].no_html
      /\ fs[conns[c].invoked[1].func.root] = {} )
    => /\ conns[c].sent.some
       /\ conns[c].sent.val.status_code = 404

\* C9: in the static-file handler, once a file is resolved, a failed read
\* sets 404 "Not Found" and no content; a read that succeeds sets the file's
\* text as the content and does not set 404.
C9_ReadOutcome ==
  \A c \in Conns :
    /\ conns[c].read = "err"
       => /\ conns[c].response.status_code = 404
          /\ conns[c].response.status_message = "Not Found"
          /\ conns[c].response.body = ""
          /\ conns[c].response.headers = << >>
    /\ conns[c].read = "ok"
       => /\ conns[c].response.body = FileText(conns[c].file.val[1])
          /\ conns[c].response.status_code # 404

C9_Witness ==
  \E c \in Conns :
    /\ conns[c].pc = "done"
    /\ conns[c].read = "err"
    /\ conns[c].file.some
    /\ conns[c].sent.some
    /\ conns[c].sent.val.status_code = 404

StaticTarget(request) ==
  request.path = RootPath \/ HasStaticExtension(request.path)

InvokedStatic(c) ==
  \E i \in 1..Len(conns[c].invoked) : conns[c].invoked[i].func.name = "static"

\* C10 as stated: once serve_static has been called, every GET for "/" or a
\* path with a static extension reaches the static-file handler, and no
\* request of another method does.
C10_ServeStaticAlwaysServes ==
  \A c \in Conns :
    (conns[c].pc = "done" /\ statics # {} /\ StaticTarget(conns[c].orig))
    => IF conns[c].orig.method = "GET"
       THEN Len(conns[c].invoked) = 1 /\ InvokedStatic(c)
       ELSE ~InvokedStatic(c)

\* C10 amended: the same, provided no route group with the base path
\* "/static" is registered through router() after the call of serve_static.
C10_ServeStaticServesUnlessReplaced ==
  \A c \in Conns :
    ( /\ conns[c].pc = "done"
      /\ statics # {}
      /\ StaticTarget(conns[c].orig)
      /\ routers[StaticPath].val \notin UserRouters )
    => IF conns[c].orig.method = "GET"
       THEN Len(conns[c].invoked) = 1 /\ InvokedStatic(c)
       ELSE ~InvokedStatic(c)

C10_Witness ==
  \E c \in Conns :
    /\ conns[c].pc = "done"
    /\ statics # {}
    /\ routers[StaticPath].val \notin UserRouters
    /\ conns[c].orig = NewRequest("GET", AppJsPath)
    /\ Len(conns[c].invoked) = 1
    /\ InvokedStatic(c)

\* C11: when the stream of an accepted connection does not parse, the failure
\* is logged, no step of the dispatch (static rewrite, lookup, middleware,
\* handler) runs for the connection, nothing is sent on it, and the worker is
\* free for further jobs.
C11_ParseFailureOnlyLogged ==
  \A c \in DOMAIN conns :
    /\ (conns[c].pc # "unaccepted" /\ ~conns[c].stream.some)
       => conns[c].pc \in {"queued", "parsing", "failed"}
    /\ conns[c].pc = "failed"
       => /\ conns[c].log = << "Request Error" >>
          /\ conns[c].orig = None
          /\ conns[c].request = None
          /\ conns[c].created = 0
          /\ conns[c].searched = None
          /\ conns[c].router = None
          /\ conns[c].func = None
          /\ conns[c].invoked = << >>
          /\ conns[c].sends = 0
          /\ conns[c].sent = None
          /\ lock # c
          /\ conns[c].pc \notin Handling

\* More failed jobs than the pool has workers: some worker took a job after a
\* failed one.
C11_Witness ==
  /\ Cardinality(DOMAIN conns) > PoolSize
  /\ \A c \in DOMAIN conns : conns[c].pc = "failed"

\* C12: run() accepts connections for as long as the listener yields them; the
\* listener's first error ends run() whatever is queued or in progress, and
\* from then on run() stays ended and no connection is enqueued any more.
C12_RunEndsAtFirstListenerError ==
  /\ [](phase = "running"
          => /\ ENABLED AcceptError
             /\ (\E c \in Conns : conns[c].pc = "unaccepted")
                  => ENABLED (\E c \in Conns, stream \in Streams : Accept(c, stream)))
  /\ [][phase = "stopped"
          => /\ phase' = "stopped"
             /\ Len(queue') <= Len(queue)
             /\ \A c \in Conns : conns'[c].pc = "queued" => conns[c].pc = "queued"]_vars
  /\ [][(phase = "running" /\ phase' = "stopped")
          => UNCHANGED <<queue, conns, lock>>]_vars

C12_Witness ==
  /\ phase = "stopped"
  /\ \E c \in Conns : conns[c].pc \in {"queued", "handler"}

\* The worker of c is inside the closure match_router runs on the selected
\* group: its middleware, route lookup or handler.
InGroup(c) == conns[c].pc \in {"middleware", "handler", "reading"}

\* C13: a worker running the middleware or the handler of one request never
\* keeps another worker from its own trie lookup: whenever a worker is inside
\* a group and another one has parsed its request, the lookup of the second
\* can take place.
C13_WorkersNeverBlockEachOther ==
  \A c, d \in DOMAIN conns :
    (c # d /\ InGroup(c) /\ conns[d].pc = "matching") => ENABLED Search(d)

\* The stream of c parsed and its job has entered handle_loop.
Parsed(c) == conns[c].pc \in (Handling \ {"parsing"}) \cup {"done"}

\* C14: a parsed request gets exactly one Response, fresh; until a handler is
\* invoked for the request the Response is as created, the handler (at most
\* one invocation) is given it as created; send is called on it exactly once,
\* when dispatch is over and the lock is released, and not before.
C14_OneResponsePerRequest ==
  \A c \in Conns :
    /\ conns[c].created = (IF Parsed(c) THEN 1 ELSE 0)
    /\ conns[c].invoked = << >> => conns[c].response = ResponseNew
    /\ Len(conns[c].invoked) <= 1
    /\ \A i \in DOMAIN conns[c].invoked : conns[c].invoked[i].response = ResponseNew
    /\ conns[c].pc \in {"matching", "middleware", "handler"} => conns[c].response = ResponseNew
    /\ conns[c].sends = (IF conns[c].pc = "done" THEN 1 ELSE 0)
    /\ conns[c].pc = "done" => conns[c].sent = send(conns[c].response)
    /\ conns[c].pc \in {"sending", "done"} => (lock # c /\ Searched(c))

C14_Witness ==
  \E c \in Conns :
    /\ conns[c].pc = "done"
    /\ conns[c].created = 1
    /\ Len(conns[c].invoked) = 1
    /\ conns[c].response # ResponseNew
    /\ conns[c].sends = 1

\* The handlers a group holds, over all its routes and methods.
HandlersOf(g) ==
  UNION { { g.routes[k][m] : m \in DOMAIN g.routes[k] } : k \in DOMAIN g.routes }

\* What the method map of the group's route for the request yields.
LookupIn(g, request) ==
  IF request.path \in DOMAIN g.routes /\ request.method \in DOMAIN g.routes[request.path]
  THEN Some(g.routes[request.path][request.method])
  ELSE None

\* The headers the middleware of a group leaves, in the order it is registered.
Marks(mws) == [i \in DOMAIN mws |-> Mark(mws[i])]

\* C15: dispatch never backtracks. The group of a request is the one the trie
\* yields for the path the request carried into the lookup; the handler, if
\* any, is the one that group holds for the request as its middleware left it,
\* also when that path lies under another registered group; without a group
\* there is no handler.
C15_DispatchNeverBacktracks ==
  \A c \in Conns : (Searched(c) /\ Routed(c)) =>
    /\ conns[c].router = search(routers, conns[c].searched.val)
    /\ ~conns[c].router.some => conns[c].func = None
    /\ conns[c].router.some =>
         /\ conns[c].func = LookupIn(conns[c].router.val, conns[c].request)
         /\ conns[c].func.some => conns[c].func.val \in HandlersOf(conns[c].router.val)

C15_Witness ==
  \E c \in Conns :
    /\ conns[c].pc = "done"
    /\ TestRouter \in Groups
    /\ conns[c].searched = Some(UnregisteredPath)
    /\ conns[c].router = Some(CatchAllRouter)
    /\ conns[c].request.path = TestPath
    /\ conns[c].request.method = "GET"
    /\ conns[c].func = Some(LogOnlyHandler)
    /\ LookupIn(TestRouter, conns[c].request) = Some(HelloHandler)

\* C16: when the trie yields a group, the group's middleware has not run before
\* the lookup (the request is still the parsed one after the static rewrite),
\* and once the route lookup is over every middleware of the group has left
\* its mark exactly once, in registration order, whether or not a route or a
\* method was found; the lookup was made on the request the middleware left.
C16_MiddlewareRunsOnceInOrder ==
  \A c \in Conns : conns[c].router.some =>
    /\ conns[c].pc = "middleware"
         => conns[c].request = check_static_request(conns[c].orig)
    /\ Routed(c)
         => /\ conns[c].request.headers
                 = conns[c].orig.headers \o Marks(conns[c].router.val.middleware)
            /\ (\E i \in DOMAIN conns[c].router.val.middleware :
                  conns[c].router.val.middleware[i] = "to_test")
                 => conns[c].request.path = TestPath
            /\ conns[c].func.some
                 = (LookupIn(conns[c].router.val,
                             execute_middleware(conns[c].router.val,
                                                check_static_request(conns[c].orig))).some)

C16_Witness ==
  \E c \in Conns :
    /\ conns[c].pc = "done"
    /\ conns[c].router = Some(LegacyRouter)
    /\ conns[c].orig.path = LegacyPath
    /\ conns[c].func = None
    /\ conns[c].invoked = << >>
    /\ conns[c].request.headers
         = conns[c].orig.headers \o << <<"X-Trace", "1">>, <<"X-Rewritten", "1">> >>

\* C17: from the start of run() on the routing table is frozen: no step, of
\* the acceptor, of a worker handling a request or of user code, changes the
\* trie, the groups in it, their routes or their method maps.
C17_RoutingTableFrozenAfterRun ==
  [][phase # "setup" => routers' = routers]_vars

C17_Witness ==
  /\ phase # "setup"
  /\ Cardinality(Groups) >= 2
  /\ \E c \in Conns : conns[c].pc = "done" /\ conns[c].invoked # << >>

\* The connections whose job waits in the queue.
Queued == { c \in DOMAIN conns : conns[c].pc = "queued" }

\* C18: never more than PoolSize connections are being handled; while run() is
\* accepting, a connection that arrives is accepted and queued whatever the
\* number of busy workers and the length of the queue, so the queue grows with
\* the arrivals.
C18_PoolBoundsHandlingNotQueue ==
  /\ Busy <= PoolSize
  /\ Len(queue) = Cardinality(Queued)
  /\ (phase = "running" /\ \E c \in DOMAIN conns : conns[c].pc = "unaccepted")
       => ENABLED (\E c \in DOMAIN conns, stream \in PoolStreams :
                     /\ Accept(c, stream)
                     /\ Len(queue') = Len(queue) + 1
                     /\ Busy' = Busy)

C18_Witness ==
  /\ Busy = PoolSize
  /\ Len(queue) >= 1
  /\ \A c \in DOMAIN conns : conns[c].pc # "unaccepted"

\* The job of c has run to its end.
Handled(c) == conns[c].pc \in {"done", "failed"}

\* The job of c waits in the queue or is in a worker's hands.
Pending(c) == conns[c].pc \in {"queued"} \cup Handling

\* C19: an accepted connection is in the queue exactly once until a worker
\* takes it, and is taken exactly once; with fair workers and terminating
\* jobs every queued connection is handled in the end: an accepted connection
\* stays accepted, a handled one stays as it is, and none is pending for ever.
C19_EveryQueuedConnectionHandled ==
  /\ [](\A c \in DOMAIN conns :
          /\ Cardinality({ i \in DOMAIN queue : queue[i] = c })
               = (IF conns[c].pc = "queued" THEN 1 ELSE 0)
          /\ conns[c].taken
               = (IF conns[c].pc \in Handling \cup {"done", "failed"} THEN 1 ELSE 0))
  /\ [][\A c \in DOMAIN conns :
          /\ conns[c].pc # "unaccepted" => conns'[c].pc # "unaccepted"
          /\ Handled(c) => conns'[c] = conns[c]]_vars
  /\ \A c \in PoolConns : []<>(~Pending(c))

C19_Witness ==
  /\ \A c \in DOMAIN conns : Handled(c) /\ conns[c].taken = 1
  /\ \E c \in DOMAIN conns : conns[c].pc = "done"
  /\ \E c \in DOMAIN conns : conns[c].pc = "failed"

\* C20: the routers mutex is held by a worker only between the trie lookup and
\* the return of the closure run on the group found: never by a worker whose
\* job is queued, being parsed, waiting for the lookup, logging and sending,
\* or over. So while workers sit in parsing or sending the mutex is free for
\* any worker that asks for it.
C20_LockOnlyAroundDispatch ==
  /\ lock \in {0} \cup DOMAIN conns
  /\ \A c \in DOMAIN conns : (lock = c) <=> InGroup(c)
  /\ \A c \in DOMAIN conns :
       (/\ conns[c].pc = "matching"
        /\ \A d \in DOMAIN conns : d # c =>
             conns[d].pc \in {"unaccepted", "queued", "parsing", "matching",
                              "sending", "done", "failed"})
       => ENABLED Search(c)

C20_Witness ==
  \E c, d, e \in DOMAIN conns :
    /\ conns[c].pc = "parsing"
    /\ conns[d].pc = "sending" /\ conns[d].invoked # << >>
    /\ conns[e].pc = "matching"
    /\ lock = 0

====
